---- MODULE Spec2Model ----
(***************************************************************************)
(* Model of src/index.ts of babel-highlight-kleur: the token classifier    *)
(* (getTokenType), the token stream normalizer (tokenize), the renderer    *)
(* (highlightTokens) and the entry point (highlight) with its save/restore *)
(* of kleur.enabled.                                                       *)
(*                                                                         *)
(* A string is a sequence of characters; a character is a one-element      *)
(* name.  The four newline-like characters and the escape codes kleur      *)
(* inserts are named characters, so that splitting, joining, slicing and   *)
(* stripping are computed position by position as the code computes them.  *)
(***************************************************************************)
EXTENDS Integers, Sequences, FiniteSets, TLC

VARIABLES
    enabled,             \* kleur.enabled, the process-wide flag
    flagBefore,          \* history: kleur.enabled before the first call
    pc,                  \* "idle" | "render" | "done": position inside highlight()
    rawTokens,           \* what jsTokens(code, {jsx: true}) yields for this call
    code,                \* the argument `code` of the current/last call
    forceColor,          \* options.forceColor of the current/last call
    enabledAtCall,       \* history: kleur.enabled when the call was entered
    kleurEnabledBefore,  \* the local saved by the forceColor branch
    next,                \* index of the next Token the generator will yield
    highlighted,         \* the accumulator of highlightTokens
    styleArgs,           \* history: arguments passed to colorize for the last Token
    fragment,            \* history: what the last iteration appended
    result,              \* value returned by the last call
    outcome,             \* "none" | "returned" | "threw"
    tokenizerRan,        \* history: highlightTokens/tokenize was entered
    flagWrites,          \* history: assignments to kleur.enabled in this call
    tok,                 \* classifier harness: the raw token under test
    cats                 \* classifier harness: results of successive calls

vars == <<enabled, flagBefore, pc, rawTokens, code, forceColor, enabledAtCall,
          kleurEnabledBefore, next, highlighted, styleArgs, fragment, result,
          outcome,
          tokenizerRan, flagWrites, tok, cats>>

hlVars == <<enabled, flagBefore, pc, rawTokens, code, forceColor, enabledAtCall,
            kleurEnabledBefore, next, highlighted, styleArgs, fragment, result,
          outcome,
            tokenizerRan, flagWrites>>

clVars == <<tok, cats>>

----------------------------------------------------------------------------
(* Bounds *)

MaxTokens == 3      \* raw tokens per highlighted text
MaxClassify == 2    \* times the classifier is applied to one token

----------------------------------------------------------------------------
(* Characters *)

CR == "<CR>"
LF == "<LF>"
LS == "<U+2028>"
PS == "<U+2029>"
BT == "<BACKTICK>"

\* String.prototype.toLowerCase on one character (the letters the model uses).
ToLowerCase(c) ==
    CASE c = "X" -> "x"
      [] c = "F" -> "f"
      [] c = "A" -> "a"
      [] OTHER -> c

\* String.prototype.toUpperCase on one character.
ToUpperCase(c) ==
    CASE c = "x" -> "X"
      [] c = "f" -> "F"
      [] c = "a" -> "A"
      [] c = "o" -> "O"
      [] c = "i" -> "I"
      [] c = "t" -> "T"
      [] c = "l" -> "L"
      [] c = "s" -> "S"
      [] c = "g" -> "G"
      [] c = "e" -> "E"
      [] OTHER -> c

----------------------------------------------------------------------------
(* Token classifier: getTokenType *)

sometimesKeywords_WithTarget ==
    { <<"a","s">>, <<"a","s","y","n","c">>, <<"f","r","o","m">>,
      <<"g","e","t">>, <<"o","f">>, <<"s","e","t">>,
      <<"t","a","r","g","e","t">> }

sometimesKeywords ==
    { <<"a","s">>, <<"a","s","y","n","c">>, <<"f","r","o","m">>,
      <<"g","e","t">>, <<"o","f">>, <<"s","e","t">> }

\* isKeyword of @babel/helper-validator-identifier (the words the model uses).
isKeyword(word) ==
    word \in { <<"i","f">>, <<"i","n">>, <<"d","o">>, <<"n","e","w">>,
               <<"f","o","r">>, <<"t","r","y">>, <<"v","a","r">> }

\* isStrictReservedWord(word, true): reserved words of a module plus the
\* words reserved in strict mode only.
isStrictReservedWord(word) ==
    word \in { <<"e","n","u","m">>, <<"a","w","a","i","t">>,
               <<"l","e","t">>, <<"s","t","a","t","i","c">>,
               <<"y","i","e","l","d">> }

FirstCharDiffers_Upper(value) == value[1] # ToUpperCase(value[1])

\* token.value[0] !== token.value[0].toLowerCase()
FirstCharDiffers(value) == value[1] # ToLowerCase(value[1])

BRACKET_NoBraces(value) ==
    Len(value) = 1 /\ value[1] \in {"(", ")", "[", "]"}

\* BRACKET.test(value) for /^[()[\]{}]$/
BRACKET(value) ==
    Len(value) = 1 /\ value[1] \in {"(", ")", "[", "]", "{", "}"}

DefaultCategory_Undefined == "undefined"

\* the `default:` arm of the switch
DefaultCategory == "uncolored"

\* the switch on token.type
KindCategory(type) ==
    CASE type = "NumericLiteral" -> "number"
      [] type \in {"StringLiteral", "JSXString", "NoSubstitutionTemplate"} -> "string"
      [] type = "RegularExpressionLiteral" -> "regex"
      [] type \in {"Punctuator", "JSXPunctuator"} -> "punctuator"
      [] type \in {"MultiLineComment", "SingleLineComment"} -> "comment"
      [] type \in {"Invalid", "JSXInvalid"} -> "invalid"
      [] type = "JSXIdentifier" -> "jsxIdentifier"
      [] OTHER -> DefaultCategory

\* Reading token.value[0] of an empty string gives undefined, and calling
\* toLowerCase on it throws a TypeError; the model returns "TypeError" for
\* the call that does not return.
getTokenType(token) ==
    IF token.type = "IdentifierName"
         /\ ( isKeyword(token.value)
              \/ isStrictReservedWord(token.value)
              \/ token.value \in sometimesKeywords )
    THEN "keyword"
    ELSE IF token.type = "IdentifierName" /\ token.value = <<>>
    THEN "TypeError"
    ELSE IF token.type = "IdentifierName" /\ FirstCharDiffers(token.value)
    THEN "capitalized"
    ELSE IF token.type = "Punctuator" /\ BRACKET(token.value)
    THEN "uncolored"
    ELSE IF token.type = "Invalid" /\ token.value = <<"@">>
    THEN "punctuator"
    ELSE KindCategory(token.type)

----------------------------------------------------------------------------
(* Strings *)

Min(a, b) == IF a < b THEN a ELSE b
Max(a, b) == IF a > b THEN a ELSE b

\* String.prototype.slice(start, end): a negative index counts from the end.
slice(s, start, end) ==
    LET norm(k) == IF k < 0 THEN Max(Len(s) + k, 0) ELSE Min(k, Len(s))
        a == norm(start)
        b == norm(end)
    IN  IF a >= b THEN <<>> ELSE SubSeq(s, a + 1, b)

RECURSIVE Values(_)
\* the value fields of a sequence of tokens, concatenated
Values(ts) == IF ts = <<>> THEN <<>> ELSE Head(ts).value \o Values(Tail(ts))

----------------------------------------------------------------------------
(* Token stream normalizer: tokenize *)

TemplateHeadString(value) == slice(value, 0, -2)

TemplateMiddleString_OffByOne(value) == slice(value, 1, -1)

TemplateMiddleString(value) == slice(value, 1, -2)

TemplateTailString(value) == slice(value, 1, Len(value))

\* the Tokens one raw token makes the generator yield, in order
Yielded(token) ==
    CASE token.type = "TemplateHead" ->
           << [type |-> "string", value |-> TemplateHeadString(token.value)],
              [type |-> "punctuator", value |-> <<"$", "{">>] >>
      [] token.type = "TemplateMiddle" ->
           << [type |-> "punctuator", value |-> <<"}">>],
              [type |-> "string", value |-> TemplateMiddleString(token.value)],
              [type |-> "punctuator", value |-> <<"$", "{">>] >>
      [] token.type = "TemplateTail" ->
           << [type |-> "punctuator", value |-> <<"}">>],
              [type |-> "string", value |-> TemplateTailString(token.value)] >>
      [] OTHER ->
           << [type |-> getTokenType(token), value |-> token.value] >>

RECURSIVE tokenize(_)
\* every Token the generator yields for the raw tokens of a text
tokenize(raws) ==
    IF raws = <<>> THEN <<>> ELSE Yielded(Head(raws)) \o tokenize(Tail(raws))

----------------------------------------------------------------------------
(* Renderer: highlightTokens *)

Esc(n) == "ESC[" \o n \o "m"

\* getDefs(): each style as the codes kleur puts before and after the text
getDefs ==
    [ keyword       |-> [open |-> <<Esc("36")>>, close |-> <<Esc("39")>>],
      capitalized   |-> [open |-> <<Esc("33")>>, close |-> <<Esc("39")>>],
      jsxIdentifier |-> [open |-> <<Esc("33")>>, close |-> <<Esc("39")>>],
      punctuator    |-> [open |-> <<Esc("33")>>, close |-> <<Esc("39")>>],
      number        |-> [open |-> <<Esc("35")>>, close |-> <<Esc("39")>>],
      string        |-> [open |-> <<Esc("32")>>, close |-> <<Esc("39")>>],
      regex         |-> [open |-> <<Esc("35")>>, close |-> <<Esc("39")>>],
      comment       |-> [open |-> <<Esc("90")>>, close |-> <<Esc("39")>>],
      invalid       |-> [open  |-> <<Esc("37"), Esc("41"), Esc("1")>>,
                         close |-> <<Esc("39"), Esc("49"), Esc("22")>>] ]

\* a kleur style function: it reads kleur.enabled each time it is called
colorize(def, str, en) == IF en THEN def.open \o str \o def.close ELSE str

\* the character class of NEWLINE
NewlineChars == {LF, CR, LS, PS}

BoundaryLen_NoCRLF(s, i) == IF s[i] \in NewlineChars THEN 1 ELSE 0

\* length of the match of NEWLINE at position i (0: no match); the
\* alternative \r\n is tried first
BoundaryLen(s, i) ==
    IF i < Len(s) /\ s[i] = CR /\ s[i + 1] = LF THEN 2
    ELSE IF s[i] \in NewlineChars THEN 1
    ELSE 0

RECURSIVE SplitFrom(_, _, _)
SplitFrom(s, i, cur) ==
    IF i > Len(s) THEN <<cur>>
    ELSE IF BoundaryLen(s, i) > 0
         THEN <<cur>> \o SplitFrom(s, i + BoundaryLen(s, i), <<>>)
         ELSE SplitFrom(s, i + 1, Append(cur, s[i]))

\* value.split(NEWLINE)
split(value) == SplitFrom(value, 1, <<>>)

RECURSIVE join(_, _)
\* Array.prototype.join
join(parts, sep) ==
    IF Len(parts) = 0 THEN <<>>
    ELSE IF Len(parts) = 1 THEN parts[1]
    ELSE parts[1] \o sep \o join(Tail(parts), sep)

\* the arguments the loop body passes to colorize for one Token
ColorizeArgs(defs, token) ==
    IF token.type \in DOMAIN defs THEN split(token.value) ELSE <<>>

\* what the loop body appends to `highlighted` for one Token
Fragment(defs, token, en) ==
    IF token.type \in DOMAIN defs
    THEN LET parts == split(token.value)
         IN  join([k \in 1..Len(parts) |-> colorize(defs[token.type], parts[k], en)],
                  <<LF>>)
    ELSE token.value

----------------------------------------------------------------------------
(* The lexical tokenizer, jsTokens(text, {jsx: true}) *)

Tk(type, value) == [type |-> type, value |-> value]

\* Raw tokens the tokenizer produces.  A TemplateHead starts with a backtick (BT)
\* and ends with "${", a TemplateMiddle starts with "}" and ends with "${",
\* a TemplateTail starts with "}"; no token has an empty value.
TokenUniverse ==
    { Tk("IdentifierName", <<"i", "f">>),
      Tk("IdentifierName", <<"X">>),
      Tk("LineTerminatorSequence", <<CR, LF>>),
      Tk("Punctuator", <<"(">>),
      Tk("NumericLiteral", <<"1">>),
      Tk("MultiLineComment", <<"/", "*", LF, "*", "/">>),
      Tk("MultiLineComment", <<"/", "*", CR, LF, PS, "*", "/">>),
      Tk("TemplateHead", <<BT, "a", "$", "{">>),
      Tk("TemplateMiddle", <<"}", LS, "$", "{">>),
      Tk("TemplateTail", <<"}", CR, "b", BT>>),
      Tk("TemplateTail", <<"}">>) }

RECURSIVE TemplateDepth(_, _)
\* The tokenizer's stack of open templates after a token sequence, or -1
\* when the sequence has a TemplateMiddle or TemplateTail outside a template
\* (there the tokenizer reads "}" as a Punctuator).
TemplateDepth(ts, d) ==
    IF ts = <<>> THEN d
    ELSE LET t == Head(ts).type
         IN  IF t = "TemplateHead" THEN TemplateDepth(Tail(ts), d + 1)
             ELSE IF t = "TemplateMiddle"
                  THEN IF d > 0 THEN TemplateDepth(Tail(ts), d) ELSE -1
             ELSE IF t = "TemplateTail"
                  THEN IF d > 0 THEN TemplateDepth(Tail(ts), d - 1) ELSE -1
             ELSE TemplateDepth(Tail(ts), d)

\* the token sequences the tokenizer can produce, up to MaxTokens tokens
RawTokenLists ==
    { ts \in UNION { [1..n -> TokenUniverse] : n \in 0..MaxTokens } :
        TemplateDepth(ts, 0) >= 0 }

----------------------------------------------------------------------------
(* Entry point: highlight *)

NoCall ==
    /\ rawTokens = <<>>
    /\ code = <<>>
    /\ forceColor = FALSE
    /\ enabledAtCall = enabled
    /\ kleurEnabledBefore = enabled
    /\ next = 1
    /\ highlighted = <<>>
    /\ styleArgs = <<>>
    /\ fragment = <<>>
    /\ result = <<>>
    /\ outcome = "none"
    /\ tokenizerRan = FALSE
    /\ flagWrites = 0

Init ==
    /\ enabled \in BOOLEAN
    /\ flagBefore = enabled
    /\ pc = "idle"
    /\ NoCall
    /\ tok = Tk("IdentifierName", <<"x">>)
    /\ cats = <<>>

IsEmpty_Never(c) == FALSE

\* code === ""
IsEmpty(c) == c = <<>>

ForcedFlag_Unset(cur) == cur

\* kleur.enabled = true
ForcedFlag(cur) == TRUE

FlagAfterFinally_NoFinally(force, saved, cur, threw) ==
    IF force /\ ~threw THEN saved ELSE cur

\* kleur.enabled once the call has left the try statement: the finally
\* block of the forceColor branch runs on return and on throw
FlagAfterFinally(force, saved, cur, threw) ==
    IF force THEN saved ELSE cur

\* highlight(code, options), up to the point where highlightTokens starts
\* to pull Tokens; the two short-circuit returns complete here.
Highlight(ts, force) ==
    /\ pc = "idle"
    /\ rawTokens' = ts
    /\ code' = Values(ts)
    /\ forceColor' = force
    /\ enabledAtCall' = enabled
    /\ next' = 1
    /\ highlighted' = <<>>
    /\ styleArgs' = <<>>
    /\ fragment' = <<>>
    /\ IF IsEmpty(Values(ts))
       THEN /\ pc' = "done"
            /\ result' = Values(ts)
            /\ outcome' = "returned"
            /\ UNCHANGED <<enabled, kleurEnabledBefore, tokenizerRan, flagWrites>>
       ELSE IF force
       THEN /\ kleurEnabledBefore' = enabled
            /\ enabled' = ForcedFlag(enabled)
            /\ flagWrites' = flagWrites + 1
            /\ tokenizerRan' = TRUE
            /\ pc' = "render"
            /\ UNCHANGED <<result, outcome>>
       ELSE IF enabled
       THEN /\ tokenizerRan' = TRUE
            /\ pc' = "render"
            /\ UNCHANGED <<enabled, kleurEnabledBefore, flagWrites, result, outcome>>
       ELSE /\ pc' = "done"
            /\ result' = Values(ts)
            /\ outcome' = "returned"
            /\ UNCHANGED <<enabled, kleurEnabledBefore, tokenizerRan, flagWrites>>
    /\ UNCHANGED <<flagBefore, tok, cats>>

\* one iteration of the for-of loop of highlightTokens
RenderToken ==
    /\ pc = "render"
    /\ next <= Len(tokenize(rawTokens))
    /\ LET token == tokenize(rawTokens)[next]
       IN  /\ highlighted' = highlighted \o Fragment(getDefs, token, enabled)
           /\ styleArgs' = ColorizeArgs(getDefs, token)
           /\ fragment' = Fragment(getDefs, token, enabled)
    /\ next' = next + 1
    /\ UNCHANGED <<enabled, flagBefore, pc, rawTokens, code, forceColor,
                   enabledAtCall, kleurEnabledBefore, result, outcome,
                   tokenizerRan, flagWrites, tok, cats>>

\* the generator is exhausted: highlightTokens returns, the finally block
\* runs, highlight returns
Return ==
    /\ pc = "render"
    /\ next > Len(tokenize(rawTokens))
    /\ result' = highlighted
    /\ outcome' = "returned"
    /\ enabled' = FlagAfterFinally(forceColor, kleurEnabledBefore, enabled, FALSE)
    /\ flagWrites' = IF forceColor THEN flagWrites + 1 ELSE flagWrites
    /\ pc' = "done"
    /\ UNCHANGED <<flagBefore, rawTokens, code, forceColor, enabledAtCall,
                   kleurEnabledBefore, next, highlighted, styleArgs,
                   fragment, tokenizerRan, tok, cats>>

\* a collaborator (the tokenizer or a style function) throws while
\* highlightTokens runs: the finally block runs and the error propagates
Throw ==
    /\ pc = "render"
    /\ outcome' = "threw"
    /\ enabled' = FlagAfterFinally(forceColor, kleurEnabledBefore, enabled, TRUE)
    /\ flagWrites' = IF forceColor THEN flagWrites + 1 ELSE flagWrites
    /\ pc' = "done"
    /\ UNCHANGED <<flagBefore, rawTokens, code, forceColor, enabledAtCall,
                   kleurEnabledBefore, next, highlighted, styleArgs,
                   fragment, result, tokenizerRan, tok, cats>>

\* the caller is done with the result; everything scoped to the call is gone
\* and only kleur.enabled persists
Discard ==
    /\ pc = "done"
    /\ pc' = "idle"
    /\ rawTokens' = <<>>
    /\ code' = <<>>
    /\ forceColor' = FALSE
    /\ enabledAtCall' = enabled
    /\ kleurEnabledBefore' = enabled
    /\ next' = 1
    /\ highlighted' = <<>>
    /\ styleArgs' = <<>>
    /\ fragment' = <<>>
    /\ result' = <<>>
    /\ outcome' = "none"
    /\ tokenizerRan' = FALSE
    /\ flagWrites' = 0
    /\ UNCHANGED <<enabled, flagBefore, tok, cats>>

Next ==
    \/ pc = "idle" /\ \E ts \in RawTokenLists, force \in BOOLEAN : Highlight(ts, force)
    \/ RenderToken
    \/ Return
    \/ Throw
    \/ Discard

Spec == Init /\ [][Next]_vars

----------------------------------------------------------------------------
(* The classifier applied to arbitrary raw tokens *)

\* the token types of js-tokens, and one type it does not have
Kinds ==
    { "StringLiteral", "NoSubstitutionTemplate", "TemplateHead",
      "TemplateMiddle", "TemplateTail", "RegularExpressionLiteral",
      "MultiLineComment", "SingleLineComment", "HashbangComment",
      "IdentifierName", "PrivateIdentifier", "NumericLiteral", "Punctuator",
      "WhiteSpace", "LineTerminatorSequence", "Invalid", "JSXString",
      "JSXText", "JSXIdentifier", "JSXPunctuator", "JSXInvalid", "Unknown" }

Texts ==
    { <<>>,
      <<"a","s">>, <<"a","s","y","n","c">>, <<"f","r","o","m">>,
      <<"g","e","t">>, <<"o","f">>, <<"s","e","t">>,
      <<"t","a","r","g","e","t">>,
      <<"i","f">>, <<"l","e","t">>, <<"a","w","a","i","t">>,
      <<"x">>, <<"f","o","o">>, <<"X">>, <<"F","o","o">>,
      <<"_","a">>, <<"$">>, <<"<U+4E2D>">>,
      <<"(">>, <<")">>, <<"[">>, <<"]">>, <<"{">>, <<"}">>,
      <<"(", ")">>, <<";">>, <<"=", ">">>, <<"@">>, <<"#">> }

InitClassify ==
    /\ enabled = TRUE
    /\ flagBefore = enabled
    /\ pc = "idle"
    /\ NoCall
    /\ tok \in { Tk(k, v) : k \in Kinds, v \in Texts }
    /\ cats = <<>>

\* one call getTokenType(tok)
Classify ==
    /\ Len(cats) < MaxClassify
    /\ cats' = Append(cats, getTokenType(tok))
    /\ UNCHANGED <<tok, hlVars>>

NextClassify == Classify

SpecClassify == InitClassify /\ [][NextClassify]_vars

----------------------------------------------------------------------------
(* Properties of highlight, checked under Spec *)

EscapeCodes ==
    { Esc(n) : n \in {"1", "22", "32", "33", "35", "36", "37", "39", "41", "49", "90"} }

IsSourceChar(c) == c \notin EscapeCodes

\* the text with every inserted escape code removed
Strip(str) == SelectSeq(str, IsSourceChar)

\* number of matches of NEWLINE in a text: every newline-like character
\* starts one, except a line feed that directly follows a carriage return
Boundaries(str) ==
    Cardinality({ i \in 1..Len(str) : str[i] \in {LF, CR, LS, PS} })
    - Cardinality({ i \in 1..(Len(str) - 1) : str[i] = CR /\ str[i + 1] = LF })

RECURSIVE highlightTokens(_, _, _)
\* highlightTokens(defs, text) as a function of the Tokens of the text and
\* of the value kleur.enabled has during the whole call
highlightTokens(defs, tokens, en) ==
    IF tokens = <<>> THEN <<>>
    ELSE Fragment(defs, Head(tokens), en) \o highlightTokens(defs, Tail(tokens), en)

\* the call skips the renderer: empty text, or colors neither forced nor enabled
ShortCircuit == code = <<>> \/ (~forceColor /\ ~enabledAtCall)

\* C1: removing the inserted escape codes from highlight(T, {forceColor:
\* true}) gives exactly T, also when a styled token contains CR+LF, a lone
\* CR, U+2028 or U+2029.
C1_StrippedResultIsSource ==
    (pc = "done" /\ outcome = "returned" /\ forceColor) => Strip(result) = code

\* C2: whenever no call is in progress, kleur.enabled has the value it had
\* before the first call; a call that has ended (returned or thrown) leaves
\* the flag as it found it, and a failure of the renderer ends the call by
\* throwing, with no value returned.
C2_FlagRestored ==
    /\ pc \in {"idle", "done"} => enabled = flagBefore
    /\ pc = "done" => enabled = enabledAtCall
    /\ (pc = "done" /\ forceColor /\ code # <<>>) =>
          (enabled = kleurEnabledBefore /\ flagWrites = 2)
    /\ outcome = "threw" => (pc = "done" /\ tokenizerRan /\ result = <<>>)

C2_Witness ==
    /\ pc = "done"
    /\ outcome = "threw"
    /\ forceColor
    /\ ~enabledAtCall
    /\ ~enabled
    /\ next > 1

\* C3: highlight returns its text unchanged, without running the tokenizer
\* and without writing kleur.enabled, when the text is empty or when
\* forceColor is not set and the flag is false; in every other case the
\* renderer is run on the text.
C3_ShortCircuit ==
    /\ pc = "render" => (~ShortCircuit /\ tokenizerRan)
    /\ pc = "done" =>
         IF ShortCircuit
         THEN /\ outcome = "returned"
              /\ result = code
              /\ ~tokenizerRan
              /\ flagWrites = 0
              /\ enabled = enabledAtCall
         ELSE tokenizerRan

C3_Witness ==
    /\ pc = "done"
    /\ code = <<>>
    /\ forceColor
    /\ outcome = "returned"
    /\ ~tokenizerRan

\* C4: the values of the Tokens the normalizer yields, concatenated in
\* order, are the input text; each raw token, template head, middle and
\* tail included, is reproduced exactly by the Tokens it is turned into, and
\* the Tokens yielded so far always spell a prefix of the text.
C4_NormalizerRoundTrip ==
    pc # "idle" =>
      /\ Values(tokenize(rawTokens)) = code
      /\ \A k \in 1..Len(rawTokens) :
            Values(Yielded(rawTokens[k])) = rawTokens[k].value
      /\ next - 1 <= Len(tokenize(rawTokens))
      /\ LET done == Values(SubSeq(tokenize(rawTokens), 1, next - 1))
         IN  done = SubSeq(code, 1, Len(done))

C4_Witness ==
    /\ pc = "render"
    /\ Len(rawTokens) = 3
    /\ rawTokens[1].type = "TemplateHead"
    /\ rawTokens[2].type = "TemplateMiddle"
    /\ rawTokens[3].type = "TemplateTail"
    /\ next = 8

\* C5: for a Token whose category has a style, the style function is
\* called once per segment between newline-like boundaries: no argument
\* contains LF, CR, U+2028 or U+2029, there is one argument more than there
\* are boundaries, and the line breaks of the appended fragment are plain
\* line feeds standing between the end of one styled segment and the start
\* of the next.
C5_StyledPerLine ==
    (pc \in {"render", "done"} /\ next > 1
       /\ tokenize(rawTokens)[next - 1].type \in DOMAIN getDefs) =>
      LET token == tokenize(rawTokens)[next - 1]
      IN  /\ Len(styleArgs) = 1 + Boundaries(token.value)
          /\ \A k \in 1..Len(styleArgs) : \A i \in 1..Len(styleArgs[k]) :
                styleArgs[k][i] \notin {LF, CR, LS, PS}
          /\ \A i \in 1..Len(fragment) : fragment[i] \notin {CR, LS, PS}
          /\ Cardinality({ i \in 1..Len(fragment) : fragment[i] = LF })
               = Len(styleArgs) - 1
          /\ enabled =>
               \A i \in 1..Len(fragment) :
                  fragment[i] = LF =>
                     /\ 1 < i /\ i < Len(fragment)
                     /\ fragment[i - 1] \in EscapeCodes
                     /\ fragment[i + 1] \in EscapeCodes

C5_Witness ==
    /\ pc = "render"
    /\ next > 1
    /\ tokenize(rawTokens)[next - 1].type = "comment"
    /\ Len(styleArgs) = 3
    /\ enabled

\* C10: a forceColor call renders with kleur.enabled true throughout,
\* whatever the flag was when the call was entered, and every call that
\* runs the renderer returns what highlightTokens gives with the flag true.
C10_ForcedResultIgnoresFlag ==
    /\ (pc = "render" /\ forceColor) => enabled
    /\ (pc = "render") =>
          highlighted =
            highlightTokens(getDefs, SubSeq(tokenize(rawTokens), 1, next - 1), TRUE)
    /\ (pc = "done" /\ outcome = "returned" /\ tokenizerRan) =>
          result = highlightTokens(getDefs, tokenize(rawTokens), TRUE)

C10_Witness ==
    /\ pc = "done"
    /\ outcome = "returned"
    /\ forceColor
    /\ ~enabledAtCall
    /\ result # code
    /\ Strip(result) = code

----------------------------------------------------------------------------
(* Properties of getTokenType, checked under SpecClassify *)

SemanticCategories ==
    { "keyword", "capitalized", "jsxIdentifier", "punctuator", "number",
      "string", "regex", "comment", "invalid", "uncolored" }

\* the kinds the classifier has no rule for
UnrecognizedKinds ==
    Kinds \ { "IdentifierName", "NumericLiteral", "StringLiteral", "JSXString",
              "NoSubstitutionTemplate", "RegularExpressionLiteral",
              "Punctuator", "JSXPunctuator", "MultiLineComment",
              "SingleLineComment", "Invalid", "JSXInvalid", "JSXIdentifier" }

UpperCaseChars == {"X", "F", "A"}
CaselessChars == {"_", "$", "<U+4E2D>"}

\* rule 1a of the classifier applies to the text
KeywordLike(value) ==
    \/ isKeyword(value)
    \/ isStrictReservedWord(value)
    \/ value \in { <<"a","s">>, <<"a","s","y","n","c">>, <<"f","r","o","m">>,
                   <<"g","e","t">>, <<"o","f">>, <<"s","e","t">> }

C7_KeywordSet ==
    (Len(cats) > 0 /\ tok.type = "IdentifierName") =>
       /\ cats[1] = "keyword" <=> KeywordLike(tok.value)
       /\ tok.value = <<"a","s","y","n","c">> => cats[1] = "keyword"
       /\ tok.value = <<"t","a","r","g","e","t">> => cats[1] = "uncolored"

C7_Witness ==
    /\ tok = Tk("IdentifierName", <<"t","a","r","g","e","t">>)
    /\ cats = <<"uncolored">>

\* C8 as stated: an identifier name that is not keyword-like is classified
\* capitalized when its first character is uppercase or has no case ('_',
\* '$', a caseless letter), and uncolored otherwise.
C8_CapitalizedOrCaseless ==
    (Len(cats) > 0 /\ tok.type = "IdentifierName" /\ tok.value # <<>>
       /\ ~KeywordLike(tok.value)) =>
       cats[1] = IF tok.value[1] \in UpperCaseChars \cup CaselessChars
                 THEN "capitalized" ELSE "uncolored"

\* C8 amended: an identifier name with a non-empty text that is not
\* keyword-like is classified capitalized exactly when its first character
\* is an uppercase letter, and uncolored otherwise; a first character
\* without case ('_', '$', a caseless letter) gives uncolored.
C8_CapitalizedIffUppercase ==
    (Len(cats) > 0 /\ tok.type = "IdentifierName" /\ tok.value # <<>>
       /\ ~KeywordLike(tok.value)) =>
       /\ cats[1] = IF tok.value[1] \in UpperCaseChars
                    THEN "capitalized" ELSE "uncolored"
       /\ tok.value[1] \in CaselessChars => cats[1] = "uncolored"

C8_Witness ==
    /\ tok = Tk("IdentifierName", <<"_", "a">>)
    /\ cats = <<"uncolored", "uncolored">>

\* C9: for a token that is not an identifier name, a punctuator is
\* uncolored exactly when its text is one of ( ) [ ] { } and punctuator
\* otherwise, an invalid token is punctuator exactly when its text is @ and
\* invalid otherwise, and every other kind gets the same category whatever
\* the text.
C9_TextOverrides ==
    (Len(cats) > 0 /\ tok.type # "IdentifierName") =>
       /\ tok.type = "Punctuator" =>
            cats[1] = IF tok.value \in { <<"(">>, <<")">>, <<"[">>, <<"]">>,
                                         <<"{">>, <<"}">> }
                      THEN "uncolored" ELSE "punctuator"
       /\ tok.type = "Invalid" =>
            cats[1] = IF tok.value = <<"@">> THEN "punctuator" ELSE "invalid"
       /\ tok.type \notin {"Punctuator", "Invalid"} =>
            \A v \in Texts : getTokenType(Tk(tok.type, v)) = cats[1]

C9_Witness ==
    /\ tok = Tk("Punctuator", <<"}">>)
    /\ cats = <<"uncolored">>

====
